---- MODULE Spec2Model ----
(***************************************************************************)
(* The workflow gate state machine of foreman (internal/state/state.go):   *)
(* the ProjectState record, its constructors, and the gate, stage and      *)
(* phase operations, each translated from the Go code.                      *)
(***************************************************************************)
EXTENDS Integers, Sequences, FiniteSets, TLC

VARIABLES state, last, clock, overrides, procs, config, lanes

vars == <<state, last, clock, overrides, procs, config, lanes>>

(***************************************************************************)
(* Bounds of the model.                                                    *)
(***************************************************************************)
\* longest custom workflow handed to NewWithWorkflow
MaxWorkflowLen == 3
\* number of time.Now() readings taken in one behaviour
MaxClock == 5
\* number of SetGateStatus calls in one behaviour
MaxOverrides == 1

(***************************************************************************)
(* Constants of the program.                                               *)
(***************************************************************************)
Stages == <<"requirements", "design", "phases", "implementation">>

QuickStages == <<"requirements", "implementation">>

ValidStages == {"requirements", "design", "phases", "implementation"}

\* validStatuses of IsValidGateStatus
GateStatuses == {"open", "pending-review", "approved", "blocked"}

\* validStatuses of IsValidPhaseStatus
PhaseStatuses == {"planned", "in-progress", "done"}

\* a nil *time.Time
NilTime == 0

\* The errors the operations return (fmt.Errorf values), by their kind.
OK == "nil"
NotFound == "NotFound"
IllegalTransition == "IllegalTransition"
InvalidStatus == "InvalidStatus"
TerminalStage == "TerminalStage"
InvalidStage == "InvalidStage"

(***************************************************************************)
(* Inputs the operations are called with.                                  *)
(***************************************************************************)
\* stage arguments: every recognized stage and one unrecognized identifier
StageArgs == ValidStages \cup {"testing"}

\* approvedBy arguments
Approvers == {"auto", "human"}

\* rejection reasons (the empty reason included)
Reasons == {"", "needs detail"}

\* status arguments: every recognized status and one unrecognized name
StatusArgs == GateStatuses \cup {"invalid"}

\* names of phases, and the phase-status arguments: every recognized status
\* and one unrecognized name
PhaseArgs == {"1-setup", "2-backend"}

PhaseStatusArgs == PhaseStatuses \cup {"invalid"}

\* confidence thresholds given to the constructors
Confidences == {70}

\* thresholds of NewQuickMode: none, negative, and configured ones
Thresholds == {-10, 0, 1, 80, 100}

\* confidence scores handed to ShouldAutoAdvance
ConfidenceArgs == {-20, -10, 0, 1, 79, 80, 81, 100}

\* listings of the phases directory (phase files, in file-name order)
DirListings == {<<>>, <<"1-setup">>}

\* the phase files of a project, in file-name order, and every listing of a
\* phases directory that holds some of them
PhaseFiles == <<"1-setup", "2-backend", "3-frontend">>

PhaseListings ==
    {[k \in 1..Cardinality(I) |->
         PhaseFiles[CHOOSE i \in I : Cardinality({j \in I : j < i}) = k - 1]] :
         I \in SUBSET (1..Len(PhaseFiles))}

(***************************************************************************)
(* Helpers on sequences.                                                   *)
(***************************************************************************)
Range(seq) == {seq[i] : i \in 1..Len(seq)}

\* index of the first occurrence of x in seq (1-based), 0 when absent;
\* the Go loops return the 0-based index or -1
IndexOf(seq, x) ==
    IF x \in Range(seq)
    THEN CHOOSE i \in 1..Len(seq) : seq[i] = x /\ \A j \in 1..(i-1) : seq[j] # x
    ELSE 0

(***************************************************************************)
(* config.ValidateWorkflow                                                 *)
(***************************************************************************)
\* ValidateWorkflow that also rejects a repeated stage
ValidateWorkflow_NoRepeats(workflow) ==
    IF Len(workflow) = 0 THEN "InvalidWorkflow"
    ELSE IF "implementation" \notin Range(workflow) THEN "InvalidWorkflow"
    ELSE IF \E i \in 1..Len(workflow) : workflow[i] \notin ValidStages
         THEN "InvalidWorkflow"
    ELSE IF \E i, j \in 1..Len(workflow) : i # j /\ workflow[i] = workflow[j]
         THEN "InvalidWorkflow"
    ELSE OK

ValidateWorkflow(workflow) ==
    IF Len(workflow) = 0 THEN "InvalidWorkflow"
    ELSE IF "implementation" \notin Range(workflow) THEN "InvalidWorkflow"
    ELSE IF \E i \in 1..Len(workflow) : workflow[i] \notin ValidStages
         THEN "InvalidWorkflow"
    ELSE OK

\* every stage list of at most MaxWorkflowLen identifiers
StageLists == UNION {[1..n -> StageArgs] : n \in 0..MaxWorkflowLen}

\* the custom workflows ValidateWorkflow accepts
Workflows == {w \in StageLists : ValidateWorkflow(w) = OK}

(***************************************************************************)
(* The configuration (package config): presets and reviewers.              *)
(***************************************************************************)
PresetMinimal == "minimal"
PresetLight   == "light"
PresetFull    == "full"
PresetNightly == "nightly"
PresetProduct == "product"

\* preset names given to the functions: the three presets, the two aliases,
\* a custom name and none
PresetArgs == {PresetMinimal, PresetLight, PresetFull, PresetNightly, PresetProduct,
               "custom", ""}

\* reviewer names
ReviewerArgs == {"auto", "human"}

\* the empty map of overrides
NoOverrides == [st \in {} |-> ""]

\* config.NewDefault
ConfigNewDefault ==
    [Preset      |-> "",
     AutoAdvance |-> 0,
     Workflow    |-> <<>>,
     Reviewers   |-> [Default |-> "auto", Overrides |-> NoOverrides]]

\* NormalizePreset that leaves the aliases as they are
NormalizePreset_KeepAliases(preset) == preset

NormalizePreset(preset) ==
    CASE preset = PresetNightly -> PresetMinimal
      [] preset = PresetProduct -> PresetFull
      [] OTHER                  -> preset

NewWithPreset(preset) ==
    LET cfg == [ConfigNewDefault EXCEPT !.Preset = NormalizePreset(preset)]
    IN  CASE cfg.Preset = PresetMinimal ->
                 [cfg EXCEPT !.AutoAdvance = 100,
                             !.Reviewers.Default = "auto",
                             !.Workflow = <<"requirements", "implementation">>]
          [] cfg.Preset = PresetLight ->
                 [cfg EXCEPT !.AutoAdvance = 70,
                             !.Reviewers.Default = "auto",
                             !.Workflow = <<"requirements", "implementation">>]
          [] cfg.Preset = PresetFull ->
                 [cfg EXCEPT !.AutoAdvance = 0,
                             !.Reviewers.Default = "auto",
                             !.Reviewers.Overrides =
                                 [st \in {"requirements", "design"} |-> "human"],
                             !.Workflow = <<"requirements", "design", "phases",
                                            "implementation">>]
          [] OTHER -> cfg

\* Config.GetWorkflow
GetWorkflow(c) ==
    IF Len(c.Workflow) > 0 THEN c.Workflow
    ELSE CASE NormalizePreset(c.Preset) \in {PresetMinimal, PresetLight} ->
                  <<"requirements", "implementation">>
           [] NormalizePreset(c.Preset) = PresetFull ->
                  <<"requirements", "design", "phases", "implementation">>
           [] OTHER -> <<"requirements", "design", "phases", "implementation">>

\* Reviewers.GetReviewer
GetReviewer(r, stage) ==
    IF stage \in DOMAIN r.Overrides THEN r.Overrides[stage] ELSE r.Default

\* SetReviewer that keeps the override entry when the reviewer is the default
SetReviewer_KeepEntry(r, stage, reviewer) ==
    [r EXCEPT !.Overrides = [st \in DOMAIN r.Overrides \cup {stage} |->
                                IF st = stage THEN reviewer ELSE r.Overrides[st]]]

\* Reviewers.SetReviewer
SetReviewer(r, stage, reviewer) ==
    IF reviewer = r.Default
    THEN [r EXCEPT !.Overrides = [st \in DOMAIN r.Overrides \ {stage} |-> r.Overrides[st]]]
    ELSE [r EXCEPT !.Overrides = [st \in DOMAIN r.Overrides \cup {stage} |->
                                     IF st = stage THEN reviewer ELSE r.Overrides[st]]]

(***************************************************************************)
(* Lanes (package lane).  A lane name is its sequence of characters; the   *)
(* lanes directory holds one file per lane, named by order and name.       *)
(***************************************************************************)
\* lane names given to Add: none, three plain names, and one with a space
LaneNameArgs == {<<>>, <<"a">>, <<"b">>, <<"c">>, <<"a", " ", "b">>}

\* dependency lists given to Add
LaneDepsArgs == {<<>>, <<<<"a">>>>, <<<<"b">>>>, <<<<"a">>, <<"b">>>>, <<<<"z">>>>}

\* error kinds of Add
EmptyName  == "EmptyName"
SpaceInName == "SpaceInName"
AlreadyExists == "AlreadyExists"
MissingDependency == "MissingDependency"

\* ListAll, as the set of the names it returns
LaneNames(files) == {l.Name : l \in files}

nextOrder(files) ==
    IF files = {} THEN 1
    ELSE LET max == CHOOSE m \in {l.Order : l \in files} : \A l \in files : l.Order <= m
         IN  max + 1

\* Add without the check for a lane of the same name
Add_NoDuplicateCheck(files, name, deps) ==
    IF name = <<>> THEN [files |-> files, err |-> EmptyName]
    ELSE IF \E i \in 1..Len(name) : name[i] = " "
         THEN [files |-> files, err |-> SpaceInName]
    ELSE IF \E i \in 1..Len(deps) : deps[i] \notin LaneNames(files)
         THEN [files |-> files, err |-> MissingDependency]
    ELSE [files |-> files \cup {[Name |-> name, Order |-> nextOrder(files),
                                 Status |-> "planned", Dependencies |-> deps]},
          err |-> OK]

\* Add: the files of the lanes directory after the call, and the error
Add(files, name, deps) ==
    IF name = <<>> THEN [files |-> files, err |-> EmptyName]
    ELSE IF \E i \in 1..Len(name) : name[i] = " "
         THEN [files |-> files, err |-> SpaceInName]
    ELSE IF name \in LaneNames(files) THEN [files |-> files, err |-> AlreadyExists]
    ELSE IF \E i \in 1..Len(deps) : deps[i] \notin LaneNames(files)
         THEN [files |-> files, err |-> MissingDependency]
    ELSE [files |-> files \cup {[Name |-> name, Order |-> nextOrder(files),
                                 Status |-> "planned", Dependencies |-> deps]},
          err |-> OK]

(***************************************************************************)
(* Stage ordering lookups.                                                 *)
(***************************************************************************)
ModeStages(quickMode) == IF quickMode THEN QuickStages ELSE Stages

GetStageIndexForMode(stage, quickMode) == IndexOf(ModeStages(quickMode), stage)

GetNextStageForMode(stage, quickMode) ==
    LET stages == ModeStages(quickMode)
        idx == GetStageIndexForMode(stage, quickMode)
    IN  IF idx = 0 \/ idx >= Len(stages) THEN "" ELSE stages[idx + 1]

\* GetActiveStages that looks at the quick-mode flag before the workflow
GetActiveStages_QuickFirst(s) ==
    IF s.QuickMode THEN QuickStages
    ELSE IF Len(s.Workflow) > 0 THEN s.Workflow
    ELSE Stages

GetActiveStages(s) ==
    IF Len(s.Workflow) > 0 THEN s.Workflow
    ELSE IF s.QuickMode THEN QuickStages
    ELSE Stages

GetStageIndexInWorkflow(s, stage) == IndexOf(GetActiveStages(s), stage)

GetNextStageInWorkflow(s, stage) ==
    LET stages == GetActiveStages(s)
        idx == GetStageIndexInWorkflow(s, stage)
    IN  IF idx = 0 \/ idx >= Len(stages) THEN "" ELSE stages[idx + 1]

IsStageInWorkflow(s, stage) == GetStageIndexInWorkflow(s, stage) > 0

(***************************************************************************)
(* Gates and the constructors.                                             *)
(***************************************************************************)
Gate(status) ==
    [Status |-> status, ApprovedAt |-> NilTime, ApprovedBy |-> "", Reason |-> ""]

AutoApproved(now) ==
    [Status |-> "approved", ApprovedAt |-> now, ApprovedBy |-> "auto", Reason |-> ""]

\* Go's map lookup: the gate of a stage, or nil
HasGate(s, stage) == stage \in DOMAIN s.Gates

NewDefault ==
    [CurrentStage |-> "requirements",
     Gates        |-> [st \in ValidStages |->
                          IF st = "requirements" THEN Gate("open") ELSE Gate("blocked")],
     Phases       |-> <<>>,
     QuickMode    |-> FALSE,
     Confidence   |-> 0,
     Workflow     |-> <<>>,
     MinimalMode  |-> FALSE]

NewQuickMode(confidence) ==
    [CurrentStage |-> "requirements",
     Gates        |-> [st \in {"requirements", "implementation"} |->
                          IF st = "requirements" THEN Gate("open") ELSE Gate("blocked")],
     Phases       |-> <<>>,
     QuickMode    |-> TRUE,
     Confidence   |-> confidence,
     Workflow     |-> QuickStages,
     MinimalMode  |-> FALSE]

NewMinimalMode(now) ==
    [CurrentStage |-> "implementation",
     Gates        |-> [st \in {"requirements", "implementation"} |->
                          IF st = "requirements" THEN AutoApproved(now) ELSE Gate("open")],
     Phases       |-> <<>>,
     QuickMode    |-> TRUE,
     Confidence   |-> 100,
     Workflow     |-> QuickStages,
     MinimalMode  |-> TRUE]

\* The gate map the loops of NewWithWorkflow build: entry i of the workflow
\* is written after entry i-1, so a repeated stage keeps its last write.
LastIndexOf(seq, x) == CHOOSE i \in 1..Len(seq) : seq[i] = x /\ \A j \in (i+1)..Len(seq) : seq[j] # x

\* NewWithWorkflow that builds the non-minimal gates whatever minimal is
NewWithWorkflow_IgnoreMinimal(wf, confidence, minimal, now) ==
    LET workflow == IF Len(wf) = 0 THEN Stages ELSE wf
        n == Len(workflow)
        gateAt(i) == IF i = 1 THEN Gate("open") ELSE Gate("blocked")
    IN  [CurrentStage |-> workflow[1],
         Gates        |-> [st \in Range(workflow) |-> gateAt(LastIndexOf(workflow, st))],
         Phases       |-> <<>>,
         QuickMode    |-> n <= 2,
         Confidence   |-> confidence,
         Workflow     |-> workflow,
         MinimalMode  |-> minimal]

NewWithWorkflow(wf, confidence, minimal, now) ==
    LET workflow == IF Len(wf) = 0 THEN Stages ELSE wf
        n == Len(workflow)
        gateAt(i) == IF minimal
                     THEN IF i = n THEN Gate("open") ELSE AutoApproved(now)
                     ELSE IF i = 1 THEN Gate("open") ELSE Gate("blocked")
    IN  [CurrentStage |-> IF minimal THEN workflow[n] ELSE workflow[1],
         Gates        |-> [st \in Range(workflow) |-> gateAt(LastIndexOf(workflow, st))],
         Phases       |-> <<>>,
         QuickMode    |-> n <= 2,
         Confidence   |-> confidence,
         Workflow     |-> workflow,
         MinimalMode  |-> minimal]

(***************************************************************************)
(* The operations.  Each returns the state it leaves and the error it      *)
(* returns: [s |-> State, err |-> error].                                  *)
(***************************************************************************)
Ret(s, err) == [s |-> s, err |-> err]

\* CanAdvanceStage that only looks for the gate, not at its status
CanAdvanceStage_GateExists(s) == HasGate(s, s.CurrentStage)

CanAdvanceStage(s) ==
    HasGate(s, s.CurrentStage) /\ s.Gates[s.CurrentStage].Status = "approved"

\* s.Gates[stage] = gate
PutGate(s, stage, gate) ==
    [s EXCEPT !.Gates = [st \in DOMAIN s.Gates \cup {stage} |->
                            IF st = stage THEN gate ELSE s.Gates[st]]]

\* AdvanceToNextStage without the fallback to the fixed ordering
AdvanceToNextStage_NoFallback(s) ==
    IF ~CanAdvanceStage(s) THEN Ret(s, IllegalTransition)
    ELSE LET nextStage == GetNextStageInWorkflow(s, s.CurrentStage)
         IN  IF nextStage = "" THEN Ret(s, TerminalStage)
             ELSE LET moved == [s EXCEPT !.CurrentStage = nextStage]
                  IN  IF ~HasGate(s, nextStage)
                      THEN Ret(PutGate(moved, nextStage, Gate("open")), OK)
                      ELSE Ret(PutGate(moved, nextStage,
                                   [s.Gates[nextStage] EXCEPT !.Status = "open",
                                                              !.Reason = ""]), OK)

\* AdvanceToNextStage that starts the new stage with an empty phase list
AdvanceToNextStage_DropPhases(s) ==
    LET r == AdvanceToNextStage_NoFallback(s)
    IN  IF r.err = OK THEN Ret([r.s EXCEPT !.Phases = <<>>], OK) ELSE r

AdvanceToNextStage(s) ==
    IF ~CanAdvanceStage(s) THEN Ret(s, IllegalTransition)
    ELSE LET inWorkflow == GetNextStageInWorkflow(s, s.CurrentStage)
             nextStage == IF inWorkflow = ""
                          THEN GetNextStageForMode(s.CurrentStage, s.QuickMode)
                          ELSE inWorkflow
         IN  IF nextStage = "" THEN Ret(s, TerminalStage)
             ELSE LET moved == [s EXCEPT !.CurrentStage = nextStage]
                  IN  IF ~HasGate(s, nextStage)
                      THEN Ret(PutGate(moved, nextStage, Gate("open")), OK)
                      ELSE Ret(PutGate(moved, nextStage,
                                   [s.Gates[nextStage] EXCEPT !.Status = "open",
                                                              !.Reason = ""]), OK)

\* ApproveGate without the check of the gate's status
ApproveGate_NoStatusCheck(s, stage, approvedBy, now) ==
    IF ~HasGate(s, stage) THEN Ret(s, NotFound)
    ELSE LET approved == PutGate(s, stage,
                            [Status |-> "approved", ApprovedAt |-> now,
                             ApprovedBy |-> approvedBy, Reason |-> ""])
         IN  IF stage = s.CurrentStage
                /\ GetNextStageForMode(stage, s.QuickMode) # ""
             THEN AdvanceToNextStage(approved)
             ELSE Ret(approved, OK)

ApproveGate(s, stage, approvedBy, now) ==
    IF ~HasGate(s, stage) THEN Ret(s, NotFound)
    ELSE IF s.Gates[stage].Status \notin {"open", "pending-review"}
         THEN Ret(s, IllegalTransition)
    ELSE LET approved == PutGate(s, stage,
                            [Status |-> "approved", ApprovedAt |-> now,
                             ApprovedBy |-> approvedBy, Reason |-> ""])
         IN  IF stage = s.CurrentStage
                /\ GetNextStageForMode(stage, s.QuickMode) # ""
             THEN AdvanceToNextStage(approved)
             ELSE Ret(approved, OK)

\* RejectGate that keeps the approval metadata and the old reason
RejectGate_StatusOnly(s, stage, reason) ==
    IF ~HasGate(s, stage) THEN Ret(s, NotFound)
    ELSE IF s.Gates[stage].Status # "pending-review" THEN Ret(s, IllegalTransition)
    ELSE Ret(PutGate(s, stage, [s.Gates[stage] EXCEPT !.Status = "open"]), OK)

RejectGate(s, stage, reason) ==
    IF ~HasGate(s, stage) THEN Ret(s, NotFound)
    ELSE IF s.Gates[stage].Status # "pending-review" THEN Ret(s, IllegalTransition)
    ELSE Ret(PutGate(s, stage,
                 [Status |-> "open", ApprovedAt |-> NilTime,
                  ApprovedBy |-> "", Reason |-> reason]), OK)

IsValidGateStatus(status) == status \in GateStatuses

\* SetGateStatus that never clears the approval metadata
SetGateStatus_KeepMetadata(s, stage, status) ==
    IF ~IsValidGateStatus(status) THEN Ret(s, InvalidStatus)
    ELSE IF ~HasGate(s, stage) THEN Ret(s, NotFound)
    ELSE Ret(PutGate(s, stage, [s.Gates[stage] EXCEPT !.Status = status]), OK)

SetGateStatus(s, stage, status) ==
    IF ~IsValidGateStatus(status) THEN Ret(s, InvalidStatus)
    ELSE IF ~HasGate(s, stage) THEN Ret(s, NotFound)
    ELSE Ret(PutGate(s, stage,
                 IF status # "approved"
                 THEN [s.Gates[stage] EXCEPT !.Status = status,
                                             !.ApprovedAt = NilTime,
                                             !.ApprovedBy = ""]
                 ELSE [s.Gates[stage] EXCEPT !.Status = status]), OK)

(***************************************************************************)
(* The phase tracker.                                                      *)
(***************************************************************************)
\* index of the phase named name, 0 when GetPhase returns nil
GetPhase(s, name) ==
    IF \E i \in 1..Len(s.Phases) : s.Phases[i].Name = name
    THEN CHOOSE i \in 1..Len(s.Phases) :
             s.Phases[i].Name = name /\ \A j \in 1..(i-1) : s.Phases[j].Name # name
    ELSE 0

IsValidPhaseStatus(status) == status \in PhaseStatuses

\* SetPhaseStatus that checks the name before the status and, when the name
\* is tracked, writes the status to every phase
SetPhaseStatus_EveryPhase(s, name, status) ==
    IF GetPhase(s, name) = 0 THEN Ret(s, NotFound)
    ELSE IF ~IsValidPhaseStatus(status) THEN Ret(s, InvalidStatus)
    ELSE Ret([s EXCEPT !.Phases = [i \in 1..Len(s.Phases) |->
                                      [s.Phases[i] EXCEPT !.Status = status]]], OK)

SetPhaseStatus(s, name, status) ==
    IF ~IsValidPhaseStatus(status) THEN Ret(s, InvalidStatus)
    ELSE IF GetPhase(s, name) = 0 THEN Ret(s, NotFound)
    ELSE Ret([s EXCEPT !.Phases[GetPhase(s, name)].Status = status], OK)

\* AllPhasesDone without the check of the empty list
AllPhasesDone_EmptyIsDone(s) ==
    \A i \in 1..Len(s.Phases) : s.Phases[i].Status = "done"

AllPhasesDone(s) ==
    IF Len(s.Phases) = 0 THEN FALSE
    ELSE \A i \in 1..Len(s.Phases) : s.Phases[i].Status = "done"

\* ShouldAutoAdvance without the check that a threshold is configured
ShouldAutoAdvance_NoThresholdCheck(s, confidence) == confidence >= s.Confidence

ShouldAutoAdvance(s, confidence) ==
    IF s.Confidence <= 0 THEN FALSE
    ELSE confidence >= s.Confidence

\* AddPhase that puts a phase already tracked back to planned
AddPhase_ResetStatus(s, name) ==
    IF GetPhase(s, name) # 0 THEN [s EXCEPT !.Phases[GetPhase(s, name)].Status = "planned"]
    ELSE [s EXCEPT !.Phases = Append(@, [Name |-> name, Status |-> "planned"])]

AddPhase(s, name) ==
    IF GetPhase(s, name) # 0 THEN s
    ELSE [s EXCEPT !.Phases = Append(@, [Name |-> name, Status |-> "planned"])]

(***************************************************************************)
(* Persistence: Save marshals the State to state.yaml and Load parses it   *)
(* back.  A document is a function from the yaml keys that were written to *)
(* their values; the fields tagged omitempty are written only when they    *)
(* are not the zero value.                                                 *)
(***************************************************************************)
Marshal(s) ==
    LET keys == {"current_stage", "gates", "phases"}
                    \cup (IF s.QuickMode THEN {"quick_mode"} ELSE {})
                    \cup (IF s.Confidence # 0 THEN {"confidence"} ELSE {})
                    \cup (IF Len(s.Workflow) > 0 THEN {"workflow"} ELSE {})
                    \cup (IF s.MinimalMode THEN {"minimal_mode"} ELSE {})
    IN  [k \in keys |->
            CASE k = "current_stage" -> s.CurrentStage
              [] k = "gates"         -> s.Gates
              [] k = "phases"        -> s.Phases
              [] k = "quick_mode"    -> s.QuickMode
              [] k = "confidence"    -> s.Confidence
              [] k = "workflow"      -> s.Workflow
              [] k = "minimal_mode"  -> s.MinimalMode]

\* yaml.Unmarshal into a zero State: an absent key leaves the zero value
Unmarshal(doc) ==
    [CurrentStage |-> doc["current_stage"],
     Gates        |-> doc["gates"],
     Phases       |-> doc["phases"],
     QuickMode    |-> IF "quick_mode" \in DOMAIN doc THEN doc["quick_mode"] ELSE FALSE,
     Confidence   |-> IF "confidence" \in DOMAIN doc THEN doc["confidence"] ELSE 0,
     Workflow     |-> IF "workflow" \in DOMAIN doc THEN doc["workflow"] ELSE <<>>,
     MinimalMode  |-> IF "minimal_mode" \in DOMAIN doc THEN doc["minimal_mode"] ELSE FALSE]

\* Save: the document written to state.yaml
Save(s) == Marshal(s)

\* Load: the parsed document, with a blocked gate added for every stage of
\* the four-stage list that has none
Load(doc) ==
    LET s == Unmarshal(doc)
    IN  [s EXCEPT !.Gates = [st \in DOMAIN s.Gates \cup Range(Stages) |->
                                IF st \in DOMAIN s.Gates THEN s.Gates[st]
                                ELSE Gate("blocked")]]

(***************************************************************************)
(* The gate command (cmd/gate.go).  Each handler takes the document on     *)
(* disk and returns the State whose document is on disk when the command   *)
(* ends, and the error the command returns.                                *)
(***************************************************************************)
\* SyncPhasesToState that rebuilds the list in the reverse of the order found
SyncPhasesToState_Reversed(s, dirExists, names) ==
    IF ~dirExists THEN s
    ELSE [s EXCEPT !.Phases =
             [i \in 1..Len(names) |->
                 LET name == names[Len(names) + 1 - i]
                 IN  [Name   |-> name,
                      Status |-> IF GetPhase(s, name) # 0
                                 THEN s.Phases[GetPhase(s, name)].Status
                                 ELSE "planned"]]]

\* SyncPhasesToState that gives every phase it finds the status planned
SyncPhasesToState_AllPlanned(s, dirExists, names) ==
    IF ~dirExists THEN s
    ELSE [s EXCEPT !.Phases =
             [i \in 1..Len(names) |-> [Name |-> names[i], Status |-> "planned"]]]

\* project.SyncPhasesToState: the phase list rebuilt from the phases
\* directory, keeping the status of the phases already tracked
SyncPhasesToState(s, dirExists, names) ==
    IF ~dirExists THEN s
    ELSE [s EXCEPT !.Phases =
             [i \in 1..Len(names) |->
                 [Name   |-> names[i],
                  Status |-> IF GetPhase(s, names[i]) # 0
                             THEN LET same == {j \in 1..Len(s.Phases) :
                                                  s.Phases[j].Name = names[i]}
                                      lastj == CHOOSE j \in same : \A k \in same : k <= j
                                  IN  s.Phases[lastj].Status
                             ELSE "planned"]]]

\* ValidateImplementation without the check for an empty phase list
ValidateImplementation_NoEmptyCheck(s) ==
    \A i \in 1..Len(s.Phases) : s.Phases[i].Status = "done"

\* gate.ValidateImplementation: Passed of the result
ValidateImplementation(s) ==
    /\ Len(s.Phases) > 0
    /\ \A i \in 1..Len(s.Phases) : s.Phases[i].Status = "done"

\* gate.ValidateStage: Passed of the result; the checks of the other stages
\* read the project's files, whose outcome is filesPassed
ValidateStage(stage, s, filesPassed) ==
    IF stage = "implementation" THEN ValidateImplementation(s) ELSE filesPassed

handleValidate(old, st, stage, filesPassed, reviewer, dirExists, names, now) ==
    LET synced  == stage \in {"phases", "implementation"}
        st1     == IF synced THEN SyncPhasesToState(st, dirExists, names) ELSE st
        onDisk  == IF synced THEN st1 ELSE old
        passed  == ValidateStage(stage, st1, filesPassed)
    IN  IF passed /\ st1.Gates[stage].Status = "open"
        THEN IF reviewer = "auto"
             THEN LET r == ApproveGate(st1, stage, "auto", now)
                  IN  IF r.err # OK THEN Ret(onDisk, r.err) ELSE r
             ELSE LET r == SetGateStatus(st1, stage, "pending-review")
                  IN  IF r.err # OK THEN Ret(onDisk, r.err) ELSE r
        ELSE Ret(onDisk, OK)

handleApprove(old, st, stage, now) ==
    IF ~HasGate(st, stage) THEN Ret(old, NotFound)
    ELSE IF st.Gates[stage].Status # "pending-review" THEN Ret(old, IllegalTransition)
    ELSE LET r == ApproveGate(st, stage, "human", now)
         IN  IF r.err # OK THEN Ret(old, r.err) ELSE r

handleReject(old, st, stage, reason) ==
    IF ~HasGate(st, stage) THEN Ret(old, NotFound)
    ELSE IF st.Gates[stage].Status # "pending-review" THEN Ret(old, IllegalTransition)
    ELSE LET r == RejectGate(st, stage, reason)
         IN  IF r.err # OK THEN Ret(old, r.err) ELSE r

\* gateCmd.RunE: load the state, check the target stage against the active
\* stages, then run the handler of the flag given ("" for none)
gateCmd(old, targetStage, flag, reason, filesPassed, reviewer, dirExists, names, now) ==
    LET st == Load(Save(old))
    IN  IF targetStage \notin Range(GetActiveStages(st)) THEN Ret(old, InvalidStage)
        ELSE IF flag = "approve" THEN handleApprove(old, st, targetStage, now)
        ELSE IF flag = "reject" THEN handleReject(old, st, targetStage, reason)
        ELSE handleValidate(old, st, targetStage, filesPassed, reviewer,
                            dirExists, names, now)

(***************************************************************************)
(* The phase command (cmd/phase.go): load the state, rebuild the phase     *)
(* list from the phases directory, set the status, save.                   *)
(***************************************************************************)
phaseCmd(old, phaseName, phaseStatus, dirExists, names) ==
    LET st == SyncPhasesToState(Load(Save(old)), dirExists, names)
        r  == SetPhaseStatus(st, phaseName, phaseStatus)
    IN  IF r.err # OK THEN Ret(old, r.err) ELSE r

(***************************************************************************)
(* The state machine.                                                      *)
(*   state     the ProjectState                                            *)
(*   last      the last call: the operation and the error it returned      *)
(*   clock     the last reading of time.Now()                              *)
(*   overrides the number of SetGateStatus calls made                      *)
(*   procs     the watch loop and a command running as separate processes: *)
(*             where each stands and the state each has loaded             *)
(*   config    the Config of config.yaml                                   *)
(*   lanes     the lane files of the lanes directory                       *)
(***************************************************************************)
\* no process is between its Load and its Save
NoProcs == [watch |-> <<>>, cmd |-> <<>>, written |-> <<>>, dir |-> <<>>]

Call(op, err) == [op |-> op, err |-> err]

\* the constructors the commands use
InitNamed ==
    \/ /\ state = NewDefault
       /\ last = Call("NewDefault", OK)
    \/ /\ \E c \in Confidences : state = NewQuickMode(c)
       /\ last = Call("NewQuickMode", OK)
    \/ /\ state = NewMinimalMode(1)
       /\ last = Call("NewMinimalMode", OK)

InitWithWorkflow(workflows, minimals) ==
    /\ \E w \in workflows, c \in Confidences, minimal \in minimals :
           state = NewWithWorkflow(w, c, minimal, 1)
    /\ last = Call("NewWithWorkflow", OK)

\* every constructor, NewWithWorkflow over every accepted workflow
Init ==
    /\ clock = 1
    /\ overrides = 0
    /\ procs = NoProcs
    /\ config = ConfigNewDefault
    /\ lanes = {}
    /\ \/ InitNamed
       \/ InitWithWorkflow(Workflows \cup {<<>>}, BOOLEAN)

\* One call of each operation, with its arguments.
ApproveGateStep(stage, by) ==
    \E r \in {ApproveGate(state, stage, by, clock + 1)} :
        /\ clock < MaxClock
        /\ state' = r.s
        /\ last' = Call("ApproveGate", r.err)
        /\ clock' = IF r.err = OK THEN clock + 1 ELSE clock
        /\ UNCHANGED <<overrides, procs, config, lanes>>

RejectGateStep(stage, reason) ==
    \E r \in {RejectGate(state, stage, reason)} :
        /\ state' = r.s
        /\ last' = Call("RejectGate", r.err)
        /\ UNCHANGED <<clock, overrides, procs, config, lanes>>

AdvanceStageStep ==
    \E r \in {AdvanceToNextStage(state)} :
        /\ state' = r.s
        /\ last' = Call("AdvanceStage", r.err)
        /\ UNCHANGED <<clock, overrides, procs, config, lanes>>

SetGateStatusStep(stage, status) ==
    \E r \in {SetGateStatus(state, stage, status)} :
        /\ overrides < MaxOverrides
        /\ state' = r.s
        /\ last' = Call("SetGateStatus", r.err)
        /\ overrides' = overrides + 1
        /\ UNCHANGED <<clock, procs, config, lanes>>

AddPhaseStep(name) ==
    /\ state' = AddPhase(state, name)
    /\ last' = Call("AddPhase", OK)
    /\ UNCHANGED <<clock, overrides, procs, config, lanes>>

SetPhaseStatusStep(name, status) ==
    \E r \in {SetPhaseStatus(state, name, status)} :
        /\ state' = r.s
        /\ last' = Call("SetPhaseStatus", r.err)
        /\ UNCHANGED <<clock, overrides, procs, config, lanes>>

\* One run of the gate command; time.Now() is read when a gate is approved.
GateCommandStep(op, targetStage, flag, reason, filesPassed, reviewer, dirExists, names) ==
    \E r \in {gateCmd(state, targetStage, flag, reason, filesPassed, reviewer,
                     dirExists, names, clock + 1)} :
        /\ clock < MaxClock
        /\ state' = r.s
        /\ last' = Call(op, r.err)
        /\ clock' = IF \E st \in DOMAIN r.s.Gates : r.s.Gates[st].ApprovedAt = clock + 1
                    THEN clock + 1 ELSE clock
        /\ UNCHANGED <<overrides, procs, config, lanes>>

GateValidateStep(targetStage, filesPassed, reviewer, dirExists, names) ==
    GateCommandStep("gate", targetStage, "", "", filesPassed, reviewer, dirExists, names)

GateApproveStep(targetStage) ==
    GateCommandStep("gate --approve", targetStage, "approve", "", FALSE, "", FALSE, <<>>)

GateRejectStep(targetStage, reason) ==
    GateCommandStep("gate --reject", targetStage, "reject", reason, FALSE, "", FALSE, <<>>)

\* One call of GetActiveStages; the call records the list it returns.
GetActiveStagesStep ==
    /\ last' = [op |-> "GetActiveStages", err |-> OK, stages |-> GetActiveStages(state)]
    /\ UNCHANGED <<state, clock, overrides, procs, config, lanes>>

\* One call of config.ValidateWorkflow; the call records its argument.
ValidateWorkflowStep(workflow) ==
    /\ last' = [op |-> "ValidateWorkflow", err |-> ValidateWorkflow(workflow),
                workflow |-> workflow]
    /\ UNCHANGED <<state, clock, overrides, procs, config, lanes>>

\* One run of the phase command.
PhaseCommandStep(phaseName, phaseStatus, dirExists, names) ==
    \E r \in {phaseCmd(state, phaseName, phaseStatus, dirExists, names)} :
        /\ state' = r.s
        /\ last' = Call("phase", r.err)
        /\ UNCHANGED <<clock, overrides, procs, config, lanes>>

\* One reconciliation of the phase list with the phases directory; the call
\* records what it found.
SyncPhasesStep(dirExists, names) ==
    /\ state' = SyncPhasesToState(state, dirExists, names)
    /\ last' = [op |-> "SyncPhasesToState", err |-> OK,
                dirExists |-> dirExists, names |-> names]
    /\ UNCHANGED <<clock, overrides, procs, config, lanes>>

\* One call of AllPhasesDone; the call records the value it returns.
AllPhasesDoneStep ==
    /\ last' = [op |-> "AllPhasesDone", err |-> OK, done |-> AllPhasesDone(state)]
    /\ UNCHANGED <<state, clock, overrides, procs, config, lanes>>

\* One call of ShouldAutoAdvance; the call records its argument and the value
\* it returns.
ShouldAutoAdvanceStep(confidence) ==
    /\ last' = [op |-> "ShouldAutoAdvance", err |-> OK, confidence |-> confidence,
                auto |-> ShouldAutoAdvance(state, confidence)]
    /\ UNCHANGED <<state, clock, overrides, procs, config, lanes>>

\* One call of NormalizePreset; the call records its argument, the value it
\* returns and the value it returns for that value.
NormalizePresetStep(preset) ==
    /\ last' = [op |-> "NormalizePreset", err |-> OK, preset |-> preset,
                normalized |-> NormalizePreset(preset),
                again |-> NormalizePreset(NormalizePreset(preset))]
    /\ UNCHANGED <<state, clock, overrides, procs, config, lanes>>

\* One call of NewWithPreset; the configuration is the one it returns.
NewWithPresetStep(preset) ==
    /\ config' = NewWithPreset(preset)
    /\ last' = [op |-> "NewWithPreset", err |-> OK, preset |-> preset]
    /\ UNCHANGED <<state, clock, overrides, procs, lanes>>

\* config.yaml is given a preset name and a workflow (or none), and is
\* loaded.
LoadConfigStep(preset, workflow) ==
    /\ config' = [config EXCEPT !.Preset = preset, !.Workflow = workflow]
    /\ last' = [op |-> "config.Load", err |-> OK]
    /\ UNCHANGED <<state, clock, overrides, procs, lanes>>

\* One call of GetWorkflow; the call records the workflow it returns and
\* what ValidateWorkflow says of it.
GetWorkflowStep ==
    /\ last' = [op |-> "GetWorkflow", err |-> ValidateWorkflow(GetWorkflow(config)),
                workflow |-> GetWorkflow(config)]
    /\ UNCHANGED <<state, clock, overrides, procs, config, lanes>>

\* One call of SetReviewer.
SetReviewerStep(stage, reviewer) ==
    /\ config' = [config EXCEPT !.Reviewers = SetReviewer(@, stage, reviewer)]
    /\ last' = [op |-> "SetReviewer", err |-> OK, stage |-> stage, reviewer |-> reviewer]
    /\ UNCHANGED <<state, clock, overrides, procs, lanes>>

\* One call of GetReviewer; the call records its argument and the reviewer
\* it returns.
GetReviewerStep(stage) ==
    /\ last' = [op |-> "GetReviewer", err |-> OK, stage |-> stage,
                reviewer |-> GetReviewer(config.Reviewers, stage)]
    /\ UNCHANGED <<state, clock, overrides, procs, config, lanes>>

\* One call of lane.Add; the call records its arguments.
LaneAddStep(name, deps) ==
    \E r \in {Add(lanes, name, deps)} :
        /\ lanes' = r.files
        /\ last' = [op |-> "lane.Add", err |-> r.err, name |-> name, deps |-> deps]
        /\ UNCHANGED <<state, clock, overrides, procs, config>>

\* One call of gate.ValidateImplementation; the call records whether the
\* result passed.
ValidateImplementationStep ==
    /\ last' = [op |-> "ValidateImplementation", err |-> OK,
                passed |-> ValidateImplementation(state)]
    /\ UNCHANGED <<state, clock, overrides, procs, config, lanes>>

\* Save followed by Load
SaveLoadStep ==
    /\ state' = Load(Save(state))
    /\ last' = Call("Load", OK)
    /\ UNCHANGED <<clock, overrides, procs, config, lanes>>

\* The watch loop and a command as two processes on one state file.  Here
\* state is the content of the file; each process holds the copy it loaded
\* until it saves.
\* displayProgress, first half: load the state
WatchLoadStep ==
    /\ procs.watch = <<>>
    /\ procs' = [procs EXCEPT !.watch = <<Load(Save(state))>>]
    /\ last' = Call("watch: Load", OK)
    /\ UNCHANGED <<state, clock, overrides, config, lanes>>

\* displayProgress, second half: reconcile the loaded copy and save it
WatchSaveStep ==
    /\ procs.watch # <<>>
    /\ state' = SyncPhasesToState(procs.watch[1], procs.dir[1].exists, procs.dir[1].names)
    /\ procs' = [procs EXCEPT !.watch = <<>>]
    /\ last' = Call("watch: Save", OK)
    /\ UNCHANGED <<clock, overrides, config, lanes>>

\* a gate or phase command, first half: load the state
CommandLoadStep ==
    /\ procs.cmd = <<>>
    /\ procs' = [procs EXCEPT !.cmd = <<Load(Save(state))>>]
    /\ last' = Call("command: Load", OK)
    /\ UNCHANGED <<state, clock, overrides, config, lanes>>

\* a command, second half: r is what the command makes of its loaded copy; it
\* saves unless it returned an error
CommandSaveStep(op, r) ==
    /\ state' = IF r.err = OK THEN r.s ELSE state
    /\ procs' = [procs EXCEPT !.cmd = <<>>,
                              !.written = IF r.err = OK THEN <<r.s>> ELSE @]
    /\ last' = Call(op, r.err)
    /\ UNCHANGED <<overrides, config, lanes>>

\* gate --approve, second half
ApproveSaveStep(targetStage) ==
    /\ procs.cmd # <<>>
    /\ clock < MaxClock
    /\ \E r \in {gateCmd(procs.cmd[1], targetStage, "approve", "", FALSE, "", FALSE,
                          <<>>, clock + 1)} :
           /\ CommandSaveStep("gate --approve: Save", r)
           /\ clock' = IF r.err = OK THEN clock + 1 ELSE clock

\* phase, second half
PhaseSaveStep(phaseName, phaseStatus) ==
    /\ procs.cmd # <<>>
    /\ \E r \in {phaseCmd(procs.cmd[1], phaseName, phaseStatus,
                           procs.dir[1].exists, procs.dir[1].names)} :
           CommandSaveStep("phase: Save", r)
    /\ UNCHANGED clock

DoApproveGate == \E stage \in StageArgs, by \in Approvers : ApproveGateStep(stage, by)

DoRejectGate == \E stage \in StageArgs, reason \in Reasons : RejectGateStep(stage, reason)

DoAdvanceStage == AdvanceStageStep

DoSetGateStatus == \E stage \in StageArgs, status \in StatusArgs : SetGateStatusStep(stage, status)

DoAddPhase == \E name \in PhaseArgs : AddPhaseStep(name)

DoAddFirstPhase == AddPhaseStep("1-setup")

DoSetPhaseStatus ==
    \E name \in PhaseArgs, status \in PhaseStatusArgs : SetPhaseStatusStep(name, status)

\* the phases directory is read for the stages phases and implementation only
DoGateValidate ==
    \E stage \in StageArgs, filesPassed \in BOOLEAN, reviewer \in Approvers :
        \E dirExists \in (IF stage \in {"phases", "implementation"} THEN BOOLEAN ELSE {FALSE}),
           names \in (IF stage \in {"phases", "implementation"} THEN DirListings ELSE {<<>>}) :
            GateValidateStep(stage, filesPassed, reviewer, dirExists, names)

DoGateApprove == \E stage \in StageArgs : GateApproveStep(stage)

DoGateReject == \E stage \in StageArgs, reason \in Reasons : GateRejectStep(stage, reason)

DoPhaseCommand ==
    \E phaseName \in PhaseArgs, phaseStatus \in PhaseStatusArgs,
       dirExists \in BOOLEAN, names \in DirListings :
        PhaseCommandStep(phaseName, phaseStatus, dirExists, names)

DoAddPhaseFile == \E name \in Range(PhaseFiles) : AddPhaseStep(name)

DoSetPhaseFileStatus ==
    \E name \in Range(PhaseFiles), status \in PhaseStatusArgs :
        SetPhaseStatusStep(name, status)

DoSyncPhases ==
    \E dirExists \in BOOLEAN, names \in PhaseListings : SyncPhasesStep(dirExists, names)

DoAllPhasesDone == AllPhasesDoneStep

DoApproveSave == \E stage \in StageArgs : ApproveSaveStep(stage)

DoPhaseSave ==
    \E phaseName \in PhaseArgs, phaseStatus \in PhaseStatusArgs :
        PhaseSaveStep(phaseName, phaseStatus)

DoNormalizePreset == \E preset \in PresetArgs : NormalizePresetStep(preset)

DoNewWithPreset == \E preset \in PresetArgs : NewWithPresetStep(preset)

DoLoadConfig ==
    \E preset \in PresetArgs, workflow \in {w \in StageLists : Len(w) <= 2} :
        LoadConfigStep(preset, workflow)

DoSetReviewer ==
    \E stage \in StageArgs, reviewer \in ReviewerArgs : SetReviewerStep(stage, reviewer)

DoGetReviewer == \E stage \in StageArgs : GetReviewerStep(stage)

DoLaneAdd == \E name \in LaneNameArgs, deps \in LaneDepsArgs : LaneAddStep(name, deps)

DoShouldAutoAdvance == \E confidence \in ConfidenceArgs : ShouldAutoAdvanceStep(confidence)

DoSaveLoad == SaveLoadStep

DoGetActiveStages == GetActiveStagesStep

DoValidateWorkflow == \E workflow \in StageLists : ValidateWorkflowStep(workflow)

\* ApproveGate, RejectGate and AdvanceStage from every constructor
Next == DoApproveGate \/ DoRejectGate \/ DoAdvanceStage

Spec == Init /\ [][Next]_vars

\* Custom workflows for the specifications that also explore the overrides:
\* a two-stage list without requirements, implementation in the middle, and
\* a stage repeated.
SampleWorkflows ==
    {w \in {<<"design", "implementation">>,
            <<"requirements", "implementation", "design">>,
            <<"requirements", "requirements", "implementation">>} :
        ValidateWorkflow(w) = OK}

InitGates ==
    /\ clock = 1
    /\ overrides = 0
    /\ procs = NoProcs
    /\ config = ConfigNewDefault
    /\ lanes = {}
    /\ \/ InitNamed
       \/ InitWithWorkflow(SampleWorkflows, BOOLEAN)

\* the gate operations with the administrative override SetGateStatus
NextGates == DoApproveGate \/ DoRejectGate \/ DoAdvanceStage \/ DoSetGateStatus

SpecGates == InitGates /\ [][NextGates]_vars

\* the named constructors and a workflow whose last stage has a successor
\* in the fixed two-stage ordering
InitOps ==
    /\ clock = 1
    /\ overrides = 0
    /\ procs = NoProcs
    /\ config = ConfigNewDefault
    /\ lanes = {}
    /\ \/ InitNamed
       \/ InitWithWorkflow({<<"implementation", "requirements">>}, {FALSE})

\* every operation that returns an error, and AddPhase of one phase
NextOps ==
    \/ DoApproveGate \/ DoRejectGate \/ DoAdvanceStage \/ DoSetGateStatus
    \/ DoAddFirstPhase \/ DoSetPhaseStatus

SpecOps == InitOps /\ [][NextOps]_vars

\* repeatedly approving the current stage, from the non-minimal constructors
InitDrive ==
    /\ clock = 1
    /\ overrides = 0
    /\ procs = NoProcs
    /\ config = ConfigNewDefault
    /\ lanes = {}
    /\ \/ /\ state = NewDefault
          /\ last = Call("NewDefault", OK)
       \/ /\ \E c \in Confidences : state = NewQuickMode(c)
          /\ last = Call("NewQuickMode", OK)
       \/ InitWithWorkflow(Workflows \cup {<<>>}, {FALSE})

DoApproveCurrent == \E by \in Approvers : ApproveGateStep(state.CurrentStage, by)

SpecDrive == InitDrive /\ [][DoApproveCurrent]_vars /\ WF_vars(DoApproveCurrent)

\* the non-minimal constructors, NewWithWorkflow over every accepted workflow
\* of at most two stages and one of three
InitCmd ==
    /\ clock = 1
    /\ overrides = 0
    /\ procs = NoProcs
    /\ config = ConfigNewDefault
    /\ lanes = {}
    /\ \/ /\ state = NewDefault
          /\ last = Call("NewDefault", OK)
       \/ /\ \E c \in Confidences : state = NewQuickMode(c)
          /\ last = Call("NewQuickMode", OK)
       \/ InitWithWorkflow({w \in Workflows : Len(w) <= 2}
                               \cup {<<"requirements", "implementation", "design">>},
                           {FALSE})

\* the gate operations and the flows of the gate command
NextCmd ==
    \/ DoApproveGate \/ DoRejectGate \/ DoAdvanceStage
    \/ DoGateValidate \/ DoGateApprove \/ DoGateReject

SpecCmd == InitCmd /\ [][NextCmd]_vars

\* a quick-mode and a custom-workflow project
InitStore ==
    /\ clock = 1
    /\ overrides = 0
    /\ procs = NoProcs
    /\ config = ConfigNewDefault
    /\ lanes = {}
    /\ \/ /\ \E c \in Confidences : state = NewQuickMode(c)
          /\ last = Call("NewQuickMode", OK)
       \/ InitWithWorkflow({<<"design", "implementation">>}, {FALSE})

\* the gate operations, the override, the gate command, and Save followed by
\* Load
NextStore ==
    \/ DoApproveGate \/ DoRejectGate \/ DoAdvanceStage \/ DoSetGateStatus
    \/ DoGateValidate \/ DoGateApprove \/ DoGateReject
    \/ DoSaveLoad

SpecStore == InitStore /\ [][NextStore]_vars

\* a loaded project file with any accepted workflow, or none, and either
\* value of the quick-mode flag
InitStages ==
    /\ clock = 1
    /\ overrides = 0
    /\ procs = NoProcs
    /\ config = ConfigNewDefault
    /\ lanes = {}
    /\ \E w \in Workflows \cup {<<>>}, q \in BOOLEAN :
           state = [NewDefault EXCEPT !.Workflow = w, !.QuickMode = q]
    /\ last = Call("Load", OK)

SpecStages == InitStages /\ [][DoGetActiveStages]_vars

\* a new project on the default workflow
InitDefault ==
    /\ clock = 1
    /\ overrides = 0
    /\ procs = NoProcs
    /\ config = ConfigNewDefault
    /\ lanes = {}
    /\ state = NewDefault
    /\ last = Call("NewDefault", OK)

SpecValidate == InitDefault /\ [][DoValidateWorkflow]_vars

\* a full, a quick-mode and a custom-workflow project, driven by the gate
\* command and the phase command alone
InitReview ==
    /\ clock = 1
    /\ overrides = 0
    /\ procs = NoProcs
    /\ config = ConfigNewDefault
    /\ lanes = {}
    /\ \/ /\ state = NewDefault
          /\ last = Call("NewDefault", OK)
       \/ /\ \E c \in Confidences : state = NewQuickMode(c)
          /\ last = Call("NewQuickMode", OK)
       \/ InitWithWorkflow({<<"design", "implementation">>}, {FALSE})

NextReview == DoGateValidate \/ DoGateApprove \/ DoGateReject \/ DoPhaseCommand

SpecReview == InitReview /\ [][NextReview]_vars

\* the phase tracker of a new project: AddPhase, SetPhaseStatus,
\* AllPhasesDone and the reconciliation with the phases directory
NextPhases == DoAddPhaseFile \/ DoSetPhaseFileStatus \/ DoSyncPhases \/ DoAllPhasesDone

SpecPhases == InitDefault /\ [][NextPhases]_vars

\* a project without a threshold, and quick-mode projects over every threshold
InitAuto ==
    /\ clock = 1
    /\ overrides = 0
    /\ procs = NoProcs
    /\ config = ConfigNewDefault
    /\ lanes = {}
    /\ \/ /\ state = NewDefault
          /\ last = Call("NewDefault", OK)
       \/ /\ \E t \in Thresholds : state = NewQuickMode(t)
          /\ last = Call("NewQuickMode", OK)

\* the auto-advance policy among the gate operations
NextAuto == DoShouldAutoAdvance \/ DoApproveGate \/ DoRejectGate \/ DoAdvanceStage

SpecAuto == InitAuto /\ [][NextAuto]_vars

\* a default and a quick-mode project whose file the watch loop and a
\* command share, over a phases directory that stays as it is
InitWatch ==
    /\ clock = 1
    /\ overrides = 0
    /\ \E dirExists \in BOOLEAN, names \in DirListings :
           /\ dirExists \/ names = <<>>
           /\ procs = [NoProcs EXCEPT !.dir = <<[exists |-> dirExists, names |-> names]>>]
    /\ config = ConfigNewDefault
    /\ lanes = {}
    /\ \/ /\ state = NewDefault
          /\ last = Call("NewDefault", OK)
       \/ /\ \E c \in Confidences : state = NewQuickMode(c)
          /\ last = Call("NewQuickMode", OK)

\* the loads and saves of the two processes, in any order
NextWatch == WatchLoadStep \/ WatchSaveStep \/ CommandLoadStep \/ DoApproveSave \/ DoPhaseSave

SpecWatch == InitWatch /\ [][NextWatch]_vars

\* the implementation validator over the phase lists the phase operations
\* and the reconciliation build
NextImplementation ==
    DoAddPhaseFile \/ DoSetPhaseFileStatus \/ DoSyncPhases \/ ValidateImplementationStep

SpecImplementation == InitDefault /\ [][NextImplementation]_vars

\* lanes: Add calls on a project without lanes
SpecLanes == InitDefault /\ [][DoLaneAdd]_vars

\* presets: the configuration of every preset name, with and without a
\* custom workflow
NextPreset == DoNormalizePreset \/ DoNewWithPreset \/ DoLoadConfig \/ GetWorkflowStep

SpecPreset == InitDefault /\ [][NextPreset]_vars

\* reviewers: the default configuration with either default reviewer, and
\* the configuration of the full preset with its two overrides
InitReviewers ==
    /\ clock = 1
    /\ overrides = 0
    /\ procs = NoProcs
    /\ lanes = {}
    /\ state = NewDefault
    /\ \/ /\ \E reviewer \in ReviewerArgs :
                 config = [ConfigNewDefault EXCEPT !.Reviewers.Default = reviewer]
          /\ last = Call("config.NewDefault", OK)
       \/ /\ config = NewWithPreset(PresetFull)
          /\ last = Call("NewWithPreset", OK)

NextReviewers == DoSetReviewer \/ DoGetReviewer

SpecReviewers == InitReviewers /\ [][NextReviewers]_vars

(***************************************************************************)
(* The claims.                                                             *)
(***************************************************************************)
ActiveStages == GetActiveStages(state)

LastOf(seq) == seq[Len(seq)]

\* the gate of stage S exists and is open or pending-review
OpenOrPending(S) ==
    HasGate(state, S) /\ state.Gates[S].Status \in {"open", "pending-review"}

\* every gate but the one of stage S is as it was, and no gate was added or removed
OtherGatesUnchanged(S) ==
    /\ DOMAIN state'.Gates = DOMAIN state.Gates
    /\ \A T \in DOMAIN state.Gates \ {S} : state'.Gates[T] = state.Gates[T]

\* C1: ApproveGate(S, by) on the current stage S, not the last element of the
\* active workflow, with an open or pending-review gate, sets currentStage to
\* the element that follows S in the active workflow and leaves that stage's
\* gate open with an empty reason.
C1_ApproveAdvancesInWorkflow ==
    [][\A S \in ValidStages, by \in Approvers :
          ( /\ ApproveGateStep(S, by)
            /\ S = state.CurrentStage
            /\ S \in Range(ActiveStages)
            /\ S # LastOf(ActiveStages)
            /\ OpenOrPending(S) )
          => LET next == ActiveStages[IndexOf(ActiveStages, S) + 1]
             IN  /\ state'.CurrentStage = next
                 /\ HasGate(state', next)
                 /\ state'.Gates[next].Status = "open"
                 /\ state'.Gates[next].Reason = ""]_vars

\* C2: ApproveGate(S, by) on the current stage S, the last element of the
\* active workflow, with an open or pending-review gate, returns no error,
\* marks S approved and leaves currentStage, every other gate and the set of
\* gate keys unchanged.
C2_FinalStageApproveStays ==
    [][\A S \in ValidStages, by \in Approvers :
          ( /\ ApproveGateStep(S, by)
            /\ S = state.CurrentStage
            /\ S = LastOf(ActiveStages)
            /\ OpenOrPending(S) )
          => /\ last'.err = OK
             /\ HasGate(state', S)
             /\ state'.Gates[S].Status = "approved"
             /\ state'.CurrentStage = state.CurrentStage
             /\ OtherGatesUnchanged(S)]_vars

\* C3: in every state reached through ApproveGate, RejectGate, SetGateStatus
\* and AdvanceStage, a gate has approvedAt and approvedBy populated if and
\* only if its status is approved.
C3_ApprovalMetadataIffApproved ==
    \A S \in DOMAIN state.Gates :
        /\ state.Gates[S].ApprovedAt # NilTime <=> state.Gates[S].Status = "approved"
        /\ state.Gates[S].ApprovedBy # "" <=> state.Gates[S].Status = "approved"

\* C4: in every state reached through ApproveGate, RejectGate and
\* AdvanceStage, currentStage is a member of the active workflow.
C4_CurrentStageInWorkflow == state.CurrentStage \in Range(ActiveStages)

\* every stage of the active workflow has an approved gate
AllStagesApproved ==
    \A S \in Range(ActiveStages) :
        HasGate(state, S) /\ state.Gates[S].Status = "approved"

\* C5: repeatedly approving the current stage, from a non-minimal initial
\* state, eventually leaves every stage of the active workflow approved with
\* currentStage the workflow's last stage.
C5_ApprovingReachesTheEnd ==
    <>(AllStagesApproved /\ state.CurrentStage = LastOf(ActiveStages))

C7_ApproveBlockedFails ==
    [][\A S \in ValidStages, by \in Approvers :
          ( /\ last'.op = "ApproveGate"
            /\ HasGate(state, S)
            /\ state.Gates[S].Status \in {"blocked", "approved"}
            /\ ApproveGateStep(S, by) )
          => /\ last'.err = IllegalTransition
             /\ state' = state]_vars

\* an ApproveGate call has just failed on a gate that exists, while some
\* gate is blocked and some gate is approved
C7_Witness ==
    /\ last = Call("ApproveGate", IllegalTransition)
    /\ \E S \in DOMAIN state.Gates : state.Gates[S].Status = "blocked"
    /\ \E S \in DOMAIN state.Gates : state.Gates[S].Status = "approved"

\* C8: RejectGate(S, reason) fails with IllegalTransition and changes nothing
\* when S's gate is not pending-review; when it is, the gate becomes open
\* with approvedAt and approvedBy cleared and the reason stored as given, and
\* currentStage and all other gates are unchanged.
C8_RejectGate ==
    [][\A S \in ValidStages, reason \in Reasons :
          ( /\ last'.op = "RejectGate"
            /\ HasGate(state, S)
            /\ RejectGateStep(S, reason) )
          => IF state.Gates[S].Status # "pending-review"
             THEN /\ last'.err = IllegalTransition
                  /\ state' = state
             ELSE /\ last'.err = OK
                  /\ state'.Gates[S] = [Status |-> "open", ApprovedAt |-> NilTime,
                                        ApprovedBy |-> "", Reason |-> reason]
                  /\ OtherGatesUnchanged(S)
                  /\ state' = [state EXCEPT !.Gates = state'.Gates]]_vars

\* a RejectGate call has just succeeded and left a gate open with its reason
C8_Witness ==
    /\ last = Call("RejectGate", OK)
    /\ \E S \in DOMAIN state.Gates :
           state.Gates[S].Status = "open" /\ state.Gates[S].Reason = "needs detail"

\* the operations that return an error
FallibleOps == {"ApproveGate", "RejectGate", "SetGateStatus", "AdvanceStage", "SetPhaseStatus"}

\* C9: whenever ApproveGate, RejectGate, SetGateStatus, AdvanceStage or
\* SetPhaseStatus returns an error, the ProjectState after the call is the
\* state before it; ApproveGate returns no error once the gate is marked.
C9_ErrorLeavesStateUnchanged ==
    [][(last'.op \in FallibleOps /\ last'.err # OK) => state' = state]_vars

\* AdvanceStage has just failed at the final stage, its gate approved, with a
\* phase tracked
C9_Witness ==
    /\ last = Call("AdvanceStage", TerminalStage)
    /\ state.Gates[state.CurrentStage].Status = "approved"
    /\ Len(state.Phases) > 0

\* C10: in every state reached through ApproveGate, RejectGate and
\* AdvanceStage, the gate of the current stage is not blocked.
C10_CurrentGateNotBlocked ==
    ~(HasGate(state, state.CurrentStage)
      /\ state.Gates[state.CurrentStage].Status = "blocked")

\* C11: in every state reached from a non-minimal constructor through
\* ApproveGate, RejectGate, AdvanceStage and the gate command (validate,
\* --approve, --reject), every stage that comes after currentStage in the
\* active workflow has a gate whose status is blocked.
C11_LaterStagesBlocked ==
    LET idx == IndexOf(ActiveStages, state.CurrentStage)
    IN  idx > 0 =>
            \A i \in (idx + 1)..Len(ActiveStages) :
                /\ HasGate(state, ActiveStages[i])
                /\ state.Gates[ActiveStages[i]].Status = "blocked"

\* C12: once a gate's status is approved, no ApproveGate, RejectGate or
\* AdvanceStage call changes that gate's status, approvedAt or approvedBy.
C12_ApprovedIsTerminal ==
    [][\A S \in DOMAIN state.Gates :
          state.Gates[S].Status = "approved"
          => /\ HasGate(state', S)
             /\ state'.Gates[S].Status = "approved"
             /\ state'.Gates[S].ApprovedAt = state.Gates[S].ApprovedAt
             /\ state'.Gates[S].ApprovedBy = state.Gates[S].ApprovedBy]_vars

\* C13: AdvanceStage fails with IllegalTransition and leaves the state
\* unchanged whenever the current stage's gate is missing or has a status
\* other than approved.
C13_AdvanceNeedsApproval ==
    [][( /\ last'.op = "AdvanceStage"
         /\ ~(HasGate(state, state.CurrentStage)
              /\ state.Gates[state.CurrentStage].Status = "approved")
         /\ AdvanceStageStep )
       => /\ last'.err = IllegalTransition
          /\ state' = state]_vars

\* AdvanceStage has just failed on a current stage whose gate awaits review
C13_Witness ==
    /\ last = Call("AdvanceStage", IllegalTransition)
    /\ HasGate(state, state.CurrentStage)
    /\ state.Gates[state.CurrentStage].Status = "pending-review"

\* C14: AdvanceStage fails with TerminalStage and leaves the state unchanged
\* whenever the current stage is the last element of the active workflow and
\* its gate is approved.
C14_AdvanceAtLastStageFails ==
    [][( /\ last'.op = "AdvanceStage"
         /\ state.CurrentStage = LastOf(ActiveStages)
         /\ HasGate(state, state.CurrentStage)
         /\ state.Gates[state.CurrentStage].Status = "approved"
         /\ AdvanceStageStep )
       => /\ last'.err = TerminalStage
          /\ state' = state]_vars

\* C15: a successful AdvanceStage sets currentStage to the successor of the
\* old current stage in the active workflow, moves that successor's gate from
\* blocked to open with an empty reason, and leaves every other gate, the set
\* of gate keys and the phase list unchanged.
C15_AdvanceMovesToSuccessor ==
    [][( /\ last'.op = "AdvanceStage"
         /\ last'.err = OK
         /\ AdvanceStageStep )
       => LET idx == IndexOf(ActiveStages, state.CurrentStage)
          IN  /\ idx > 0
              /\ idx < Len(ActiveStages)
              /\ state'.CurrentStage = ActiveStages[idx + 1]
              /\ HasGate(state, ActiveStages[idx + 1])
              /\ state.Gates[ActiveStages[idx + 1]].Status = "blocked"
              /\ state'.Gates[ActiveStages[idx + 1]].Status = "open"
              /\ state'.Gates[ActiveStages[idx + 1]].Reason = ""
              /\ OtherGatesUnchanged(ActiveStages[idx + 1])
              /\ DOMAIN state'.Gates = DOMAIN state.Gates
              /\ state'.Phases = state.Phases]_vars

\* the calls that leave a freshly constructed state, and Save followed by Load
Constructors == {"NewDefault", "NewQuickMode", "NewMinimalMode", "NewWithWorkflow"}

\* C16: on a freshly constructed state, and on a state obtained by Save
\* followed by Load, ApproveGate, RejectGate and SetGateStatus (with a
\* recognized status) fail with NotFound for every stage that is not in the
\* active workflow; the gate command rejects a target stage outside the
\* active stages and leaves the state unchanged.
C16_StageOutsideWorkflowNotFound ==
    [][\A S \in StageArgs \ Range(ActiveStages) :
          /\ (last.op \in Constructors \cup {"Load"}
              /\ last'.op \in {"ApproveGate", "RejectGate", "SetGateStatus"})
             => /\ \A by \in Approvers :
                       ApproveGateStep(S, by) => last'.err = NotFound
                /\ \A reason \in Reasons :
                       RejectGateStep(S, reason) => last'.err = NotFound
                /\ \A status \in GateStatuses :
                       SetGateStatusStep(S, status) => last'.err = NotFound
          /\ (last'.op \in {"gate", "gate --approve", "gate --reject"}
              /\ \/ \E filesPassed \in BOOLEAN, reviewer \in Approvers,
                       dirExists \in BOOLEAN, names \in DirListings :
                        GateValidateStep(S, filesPassed, reviewer, dirExists, names)
                 \/ GateApproveStep(S)
                 \/ \E reason \in Reasons : GateRejectStep(S, reason))
             => /\ last'.err = InvalidStage
                /\ state' = state]_vars

\* C17: SetGateStatus(stage, status) fails with InvalidStatus exactly when
\* status is not one of blocked, open, pending-review, approved; on success
\* it sets only that gate's status, clears approvedAt and approvedBy when the
\* new status is not approved, and leaves currentStage and all other gates
\* unchanged.
C17_SetGateStatus ==
    [][last'.op = "SetGateStatus" =>
          \A S \in StageArgs, status \in StatusArgs :
              SetGateStatusStep(S, status)
              => /\ last'.err = InvalidStatus <=> status \notin GateStatuses
                 /\ last'.err = OK
                    => /\ HasGate(state, S)
                       /\ state'.Gates[S] =
                              [Status     |-> status,
                               ApprovedAt |-> IF status = "approved"
                                              THEN state.Gates[S].ApprovedAt ELSE NilTime,
                               ApprovedBy |-> IF status = "approved"
                                              THEN state.Gates[S].ApprovedBy ELSE "",
                               Reason     |-> state.Gates[S].Reason]
                       /\ OtherGatesUnchanged(S)
                       /\ state' = [state EXCEPT !.Gates = state'.Gates]]_vars

\* SetGateStatus has just succeeded and a stage before the current one, which
\* was approved, awaits review again with its approval metadata cleared
C17_Witness ==
    /\ last = Call("SetGateStatus", OK)
    /\ \E S \in DOMAIN state.Gates :
           /\ IndexOf(ActiveStages, S) > 0
           /\ IndexOf(ActiveStages, S) < IndexOf(ActiveStages, state.CurrentStage)
           /\ state.Gates[S] = [Status |-> "pending-review", ApprovedAt |-> NilTime,
                                ApprovedBy |-> "", Reason |-> ""]

\* C18: every non-minimal constructor (NewDefault, NewQuickMode,
\* NewWithWorkflow with minimal = false) returns a state whose gate map has
\* one entry per stage of the active workflow and none for other stages, with
\* the first stage's gate open, every other gate blocked, no approval
\* metadata, and currentStage equal to the first stage.
C18_NonMinimalConstructors ==
    (last.op \in {"NewDefault", "NewQuickMode", "NewWithWorkflow"} /\ ~state.MinimalMode)
    => /\ DOMAIN state.Gates = Range(ActiveStages)
       /\ state.CurrentStage = ActiveStages[1]
       /\ state.Gates[ActiveStages[1]].Status = "open"
       /\ \A S \in DOMAIN state.Gates \ {ActiveStages[1]} : state.Gates[S].Status = "blocked"
       /\ \A S \in DOMAIN state.Gates :
              state.Gates[S].ApprovedAt = NilTime /\ state.Gates[S].ApprovedBy = ""

C20_GetActiveStagesPrecedence ==
    last.op = "GetActiveStages"
    => last.stages =
           IF state.Workflow # <<>> THEN state.Workflow
           ELSE IF state.QuickMode THEN <<"requirements", "implementation">>
           ELSE <<"requirements", "design", "phases", "implementation">>

\* GetActiveStages has just returned a custom workflow of a project whose
\* quick-mode flag is set, other than the two-stage quick list
C20_Witness ==
    /\ last.op = "GetActiveStages"
    /\ state.QuickMode
    /\ state.Workflow # <<>>
    /\ last.stages = state.Workflow
    /\ last.stages # <<"requirements", "implementation">>

\* C21: ValidateWorkflow(w) returns an error if and only if w is empty, or
\* does not contain implementation, or contains an identifier outside
\* {requirements, design, phases, implementation}; where implementation
\* stands and whether an element is repeated make no difference.
C21_ValidateWorkflow ==
    last.op = "ValidateWorkflow"
    => LET w == last.workflow
       IN  last.err # OK
           <=> \/ w = <<>>
               \/ \A i \in 1..Len(w) : w[i] # "implementation"
               \/ \E i \in 1..Len(w) :
                      w[i] \notin {"requirements", "design", "phases", "implementation"}

\* ValidateWorkflow has just accepted a list that starts with implementation
\* and repeats a stage
C21_Witness ==
    /\ last.op = "ValidateWorkflow"
    /\ last.err = OK
    /\ Len(last.workflow) = 3
    /\ last.workflow[1] = "implementation"
    /\ last.workflow[2] = last.workflow[3]

\* C22: when the gate command validates a stage of the active workflow: if
\* validation passes and the gate is open, reviewer auto leaves the gate
\* approved by auto and the stage advanced if it is the current one, and
\* reviewer human leaves the gate pending-review with no approval metadata
\* and currentStage unchanged; if validation fails or the gate is not open,
\* no gate status and not currentStage changes.
C22_GateValidate ==
    [][last'.op = "gate" =>
          \A S \in Range(ActiveStages), filesPassed \in BOOLEAN, reviewer \in Approvers,
             dirExists \in BOOLEAN, names \in DirListings :
              GateValidateStep(S, filesPassed, reviewer, dirExists, names)
              => LET passed == IF S = "implementation"
                               THEN /\ Len(state'.Phases) > 0
                                    /\ \A i \in 1..Len(state'.Phases) :
                                           state'.Phases[i].Status = "done"
                               ELSE filesPassed
                     idx == IndexOf(ActiveStages, S)
                 IN  IF passed /\ HasGate(state, S) /\ state.Gates[S].Status = "open"
                     THEN IF reviewer = "auto"
                          THEN /\ last'.err = OK
                               /\ state'.Gates[S].Status = "approved"
                               /\ state'.Gates[S].ApprovedBy = "auto"
                               /\ state'.Gates[S].ApprovedAt # NilTime
                               /\ (S = state.CurrentStage /\ idx < Len(ActiveStages))
                                  => state'.CurrentStage = ActiveStages[idx + 1]
                               /\ S # state.CurrentStage
                                  => state'.CurrentStage = state.CurrentStage
                          ELSE /\ last'.err = OK
                               /\ state'.Gates[S].Status = "pending-review"
                               /\ state'.Gates[S].ApprovedAt = NilTime
                               /\ state'.Gates[S].ApprovedBy = ""
                               /\ state'.CurrentStage = state.CurrentStage
                     ELSE /\ state'.CurrentStage = state.CurrentStage
                          /\ \A T \in DOMAIN state.Gates :
                                 state'.Gates[T].Status = state.Gates[T].Status]_vars

\* C23: gate <stage> --approve succeeds only when the gate is pending-review,
\* then leaves it approved by human and advances the stage if it is the
\* current one; on a gate in any other status it fails and leaves the
\* persisted state unchanged.  gate <stage> --reject likewise acts only on a
\* pending-review gate.
C23_HumanApproveReject ==
    [][\A S \in Range(ActiveStages) :
          /\ (last'.op = "gate --approve" /\ GateApproveStep(S))
             => IF state.Gates[S].Status = "pending-review"
                THEN /\ last'.err = OK
                     /\ state'.Gates[S].Status = "approved"
                     /\ state'.Gates[S].ApprovedBy = "human"
                     /\ state'.Gates[S].ApprovedAt # NilTime
                     /\ (S = state.CurrentStage
                         /\ IndexOf(ActiveStages, S) < Len(ActiveStages))
                        => state'.CurrentStage = ActiveStages[IndexOf(ActiveStages, S) + 1]
                ELSE /\ last'.err # OK
                     /\ state' = state
          /\ \A reason \in Reasons :
                (last'.op = "gate --reject" /\ GateRejectStep(S, reason))
                => IF state.Gates[S].Status = "pending-review"
                   THEN /\ last'.err = OK
                        /\ state'.Gates[S].Status = "open"
                        /\ state'.Gates[S].Reason = reason
                   ELSE /\ last'.err # OK
                        /\ state' = state]_vars

\* the names of the tracked phases, in order
PhaseNames(s) == [i \in 1..Len(s.Phases) |-> s.Phases[i].Name]

\* C24: AddPhase(name) leaves the phase list unchanged when name is already
\* tracked; for a new name it appends one phase with status planned at the
\* end, and every existing phase keeps its position and status.
C24_AddPhaseIdempotent ==
    [][last'.op = "AddPhase" =>
          \A name \in Range(PhaseFiles) :
              AddPhaseStep(name)
              => IF name \in Range(PhaseNames(state))
                 THEN state'.Phases = state.Phases
                 ELSE /\ Len(state'.Phases) = Len(state.Phases) + 1
                      /\ \A i \in 1..Len(state.Phases) : state'.Phases[i] = state.Phases[i]
                      /\ state'.Phases[Len(state'.Phases)] =
                             [Name |-> name, Status |-> "planned"]]_vars

\* AddPhase has just been called with a name already tracked: two phases are
\* tracked and neither is planned
C24_Witness ==
    /\ last = Call("AddPhase", OK)
    /\ Len(state.Phases) = 2
    /\ \A i \in 1..Len(state.Phases) : state.Phases[i].Status # "planned"

\* C25: SetPhaseStatus(name, status) fails with InvalidStatus when status is
\* not planned, in-progress or done, and with NotFound when no phase is named
\* name, leaving the phase list unchanged in both cases; otherwise it sets
\* that phase's status and leaves every other phase, the order of the phases,
\* all gates and currentStage unchanged.
C25_SetPhaseStatus ==
    [][last'.op = "SetPhaseStatus" =>
          \A name \in Range(PhaseFiles), status \in PhaseStatusArgs :
              SetPhaseStatusStep(name, status)
              => IF status \notin {"planned", "in-progress", "done"}
                 THEN last'.err = InvalidStatus /\ state'.Phases = state.Phases
                 ELSE IF name \notin Range(PhaseNames(state))
                 THEN last'.err = NotFound /\ state'.Phases = state.Phases
                 ELSE /\ last'.err = OK
                      /\ PhaseNames(state') = PhaseNames(state)
                      /\ \A i \in 1..Len(state.Phases) :
                             state'.Phases[i].Status =
                                 IF state.Phases[i].Name = name THEN status
                                 ELSE state.Phases[i].Status
                      /\ state'.Gates = state.Gates
                      /\ state'.CurrentStage = state.CurrentStage]_vars

\* SetPhaseStatus has just succeeded and the three tracked phases have the
\* three statuses
C25_Witness ==
    /\ last = Call("SetPhaseStatus", OK)
    /\ Len(state.Phases) = 3
    /\ {state.Phases[i].Status : i \in 1..3} = PhaseStatuses

\* C26: AllPhasesDone returns false when the phase list is empty, and
\* otherwise true if and only if every tracked phase has status done.
C26_AllPhasesDone ==
    last.op = "AllPhasesDone"
    => IF state.Phases = <<>> THEN last.done = FALSE
       ELSE last.done <=> {state.Phases[i].Status : i \in 1..Len(state.Phases)} = {"done"}

\* AllPhasesDone has just returned true for three tracked phases
C26_Witness ==
    /\ last.op = "AllPhasesDone"
    /\ last.done
    /\ Len(state.Phases) = 3

\* C27: after reconciliation with a discovered ordered list D of phase names,
\* the tracked phase list has exactly the names of D in D's order; a name
\* that was tracked before keeps its status, a new name has status planned,
\* and a tracked name that is not in D is gone.
C27_Reconciliation ==
    [][last'.op = "SyncPhasesToState" =>
          \A D \in PhaseListings :
              SyncPhasesStep(TRUE, D)
              => /\ PhaseNames(state') = D
                 /\ \A i \in 1..Len(D) :
                        state'.Phases[i].Status =
                            IF D[i] \in Range(PhaseNames(state))
                            THEN state.Phases[IndexOf(PhaseNames(state), D[i])].Status
                            ELSE "planned"]_vars

\* a reconciliation has just kept a finished phase, added a new one, and
\* left two phases tracked out of a directory of two files
C27_Witness ==
    /\ last.op = "SyncPhasesToState"
    /\ last.dirExists
    /\ Len(last.names) = 2
    /\ PhaseNames(state) = last.names
    /\ state.Phases[1].Status = "planned"
    /\ state.Phases[2].Status = "done"

\* no two tracked phases of s have the same name
NamesUnique(s) ==
    \A i, j \in 1..Len(s.Phases) : s.Phases[i].Name = s.Phases[j].Name => i = j

\* the phases tracked before and after the step stand in the same relative
\* order
SurvivorsKeepOrder ==
    \A i, j \in 1..Len(state.Phases) :
        (/\ i < j
         /\ state.Phases[i].Name \in Range(PhaseNames(state'))
         /\ state.Phases[j].Name \in Range(PhaseNames(state')))
        => IndexOf(PhaseNames(state'), state.Phases[i].Name)
               < IndexOf(PhaseNames(state'), state.Phases[j].Name)

\* C28: through any sequence of AddPhase, SetPhaseStatus and reconciliation
\* (with distinct discovered names), no two tracked phases have the same name
\* and the surviving phases added by AddPhase keep the relative order in which
\* they were inserted.  (Every phase list with distinct names can be built by
\* AddPhase and SetPhaseStatus alone, so the order clause is stated for every
\* step and every pair of phases tracked before it.)
C28_NamesUniqueInsertionOrderKept ==
    [][NamesUnique(state') /\ SurvivorsKeepOrder]_vars

\* C28, as the code has it: no two tracked phases have the same name; AddPhase
\* and SetPhaseStatus keep the relative order of the tracked phases; after a
\* reconciliation the tracked phases stand in the order of the discovered
\* list, whatever order they were inserted in.
C28_NamesUniqueOrderFollowsDiscovery ==
    [][/\ NamesUnique(state')
       /\ last'.op \in {"AddPhase", "SetPhaseStatus"} => SurvivorsKeepOrder
       /\ (last'.op = "SyncPhasesToState" /\ last'.dirExists)
          => PhaseNames(state') = last'.names]_vars

\* a reconciliation has just left three phases tracked, in the order of the
\* directory listing
C28_Witness ==
    /\ last.op = "SyncPhasesToState"
    /\ last.dirExists
    /\ Len(state.Phases) = 3
    /\ PhaseNames(state) = PhaseFiles

\* C29: ShouldAutoAdvance(c) returns false for every c when the configured
\* threshold is zero or negative, and for a threshold t > 0 it returns true
\* exactly when c >= t; the call changes nothing in the state, so it approves
\* no gate.
C29_ShouldAutoAdvance ==
    [][last'.op = "ShouldAutoAdvance" =>
          /\ state.Confidence <= 0 => ~last'.auto
          /\ state.Confidence > 0 => (last'.auto <=> last'.confidence >= state.Confidence)
          /\ state' = state]_vars

\* on a project with an open gate and a negative threshold, the policy
\* answered no to a score above the threshold
C29_Witness ==
    /\ last.op = "ShouldAutoAdvance"
    /\ state.Gates[state.CurrentStage].Status = "open"
    /\ state.Confidence = -10
    /\ last.confidence = 100
    /\ ~last.auto

\* C30: The phase command updates a phase's status only while the current
\* stage is implementation; in any other stage it leaves the status of every
\* phase in the saved state as it was (a phase the command newly tracks is
\* planned).
C30_PhaseCommandOnlyInImplementation ==
    [][(last'.op = "phase" /\ state.CurrentStage # "implementation") =>
          \A j \in 1..Len(state'.Phases) :
              IF GetPhase(state, state'.Phases[j].Name) # 0
              THEN state'.Phases[j].Status
                       = state.Phases[GetPhase(state, state'.Phases[j].Name)].Status
              ELSE state'.Phases[j].Status = "planned"]_vars

\* C31: However the load and save steps of a watch iteration and of a gate or
\* phase command interleave, the command's saved update is neither lost nor
\* reverted: once both have finished, the gate statuses, the current stage
\* and the phase statuses in the file are those the command wrote.
C31_CommandUpdateSurvivesWatch ==
    (procs.watch = <<>> /\ procs.cmd = <<>> /\ procs.written # <<>>) =>
        /\ state.CurrentStage = procs.written[1].CurrentStage
        /\ \A st \in DOMAIN procs.written[1].Gates :
               /\ st \in DOMAIN state.Gates
               /\ state.Gates[st].Status = procs.written[1].Gates[st].Status
        /\ \A i \in 1..Len(procs.written[1].Phases) :
               \E j \in 1..Len(state.Phases) : state.Phases[j] = procs.written[1].Phases[i]

\* C32: Save followed by Load gives back the state that was saved: the
\* current stage, the set of gate keys, each gate's status, approver and
\* reason, the phase list with its statuses, the quick and minimal flags, the
\* confidence and the workflow override are equal to those saved.
C32_SaveLoadIdentity ==
    [][last'.op = "Load" =>
          /\ state'.CurrentStage = state.CurrentStage
          /\ DOMAIN state'.Gates = DOMAIN state.Gates
          /\ \A st \in DOMAIN state.Gates \cap DOMAIN state'.Gates :
                 /\ state'.Gates[st].Status = state.Gates[st].Status
                 /\ state'.Gates[st].ApprovedBy = state.Gates[st].ApprovedBy
                 /\ state'.Gates[st].Reason = state.Gates[st].Reason
          /\ state'.Phases = state.Phases
          /\ state'.QuickMode = state.QuickMode
          /\ state'.MinimalMode = state.MinimalMode
          /\ state'.Confidence = state.Confidence
          /\ state'.Workflow = state.Workflow]_vars

\* C33: NormalizePreset maps nightly to minimal and product to full, is the
\* identity on every other name, and is idempotent.  NewWithPreset yields
\* workflow [requirements, implementation] with auto-advance 100 for minimal,
\* the same workflow with auto-advance 70 for light, and [requirements,
\* design, phases, implementation] with auto-advance 0 for full; an alias
\* gives the same configuration as its canonical name.  GetWorkflow returns
\* a non-empty custom workflow first, else the preset's workflow, else the
\* four-stage list, and every workflow it returns for a preset alone is
\* accepted by ValidateWorkflow.
C33_PresetResolution ==
    /\ last.op = "NormalizePreset" =>
           /\ last.preset = "nightly" => last.normalized = "minimal"
           /\ last.preset = "product" => last.normalized = "full"
           /\ last.preset \notin {"nightly", "product"} => last.normalized = last.preset
           /\ last.again = last.normalized
    /\ last.op = "NewWithPreset" =>
           /\ last.preset \in {"minimal", "nightly"} =>
                  /\ config.Workflow = <<"requirements", "implementation">>
                  /\ config.AutoAdvance = 100
                  /\ config = NewWithPreset("minimal")
           /\ last.preset = "light" =>
                  /\ config.Workflow = <<"requirements", "implementation">>
                  /\ config.AutoAdvance = 70
           /\ last.preset \in {"full", "product"} =>
                  /\ config.Workflow = <<"requirements", "design", "phases", "implementation">>
                  /\ config.AutoAdvance = 0
                  /\ config = NewWithPreset("full")
    /\ last.op = "GetWorkflow" =>
           /\ last.workflow =
                  IF config.Workflow # <<>> THEN config.Workflow
                  ELSE IF config.Preset \in {"minimal", "nightly", "light"}
                       THEN <<"requirements", "implementation">>
                  ELSE <<"requirements", "design", "phases", "implementation">>
           /\ config.Workflow = <<>> => last.err = OK

\* GetWorkflow answered for the alias nightly with no custom workflow
C33_Witness ==
    /\ last.op = "GetWorkflow"
    /\ config.Preset = "nightly"
    /\ config.Workflow = <<>>
    /\ last.workflow = <<"requirements", "implementation">>

\* C34: after SetReviewer(stage, r), GetReviewer(stage) returns r and
\* GetReviewer of every other stage returns what it returned before;
\* GetReviewer returns the stage's override when there is one and the default
\* otherwise; setting a stage to the current default removes its override
\* entry.
C34_Reviewers ==
    [][/\ last'.op = "SetReviewer" =>
              /\ GetReviewer(config'.Reviewers, last'.stage) = last'.reviewer
              /\ \A st \in StageArgs \ {last'.stage} :
                     GetReviewer(config'.Reviewers, st) = GetReviewer(config.Reviewers, st)
              /\ last'.reviewer = config.Reviewers.Default =>
                     last'.stage \notin DOMAIN config'.Reviewers.Overrides
       /\ last'.op = "GetReviewer" =>
              last'.reviewer =
                  IF last'.stage \in DOMAIN config.Reviewers.Overrides
                  THEN config.Reviewers.Overrides[last'.stage]
                  ELSE config.Reviewers.Default]_vars

\* a stage with the override human was set back to the default auto
C34_Witness ==
    /\ last.op = "SetReviewer"
    /\ last.stage = "requirements"
    /\ last.reviewer = "auto"
    /\ config.Reviewers.Default = "auto"
    /\ "requirements" \notin DOMAIN config.Reviewers.Overrides
    /\ "design" \in DOMAIN config.Reviewers.Overrides
    /\ config.Preset = PresetFull

\* C35: after any sequence of lane Add calls, lane names are pairwise
\* distinct and lane order numbers are pairwise distinct.  Add fails and
\* creates nothing for an empty name, a name containing a space, an existing
\* name, or a dependency naming a lane that does not exist; a successful Add
\* creates one lane with order = (largest existing order) + 1, 1 for the
\* first lane, and status planned.
C35_LaneAdd ==
    [][last'.op = "lane.Add" =>
          /\ \A l1, l2 \in lanes' :
                 (l1.Name = l2.Name \/ l1.Order = l2.Order) => l1 = l2
          /\ (\/ last'.name = <<>>
              \/ \E i \in 1..Len(last'.name) : last'.name[i] = " "
              \/ \E l \in lanes : l.Name = last'.name
              \/ \E i \in 1..Len(last'.deps) :
                     \A l \in lanes : l.Name # last'.deps[i])
             => (last'.err # OK /\ lanes' = lanes)
          /\ last'.err = OK =>
                 \E l \in lanes' \ lanes :
                     /\ lanes' = lanes \cup {l}
                     /\ l.Name = last'.name
                     /\ l.Status = "planned"
                     /\ \A o \in lanes : o.Order < l.Order
                     /\ lanes = {} => l.Order = 1
                     /\ lanes # {} => \E o \in lanes : l.Order = o.Order + 1]_vars

\* the third lane was added with a dependency on the first two
C35_Witness ==
    /\ last.op = "lane.Add"
    /\ last.err = OK
    /\ last.deps = <<<<"a">>, <<"b">>>>
    /\ \E l \in lanes : l.Name = <<"c">> /\ l.Order = 3

\* C36: in every state reached from a non-minimal constructor through the
\* gate command (validate, --approve, --reject) and ApproveGate, RejectGate
\* and AdvanceStage, a stage's gate is approved only if the gate of every
\* earlier stage of the active workflow is approved.
C36_ApprovedInWorkflowOrder ==
    \A i \in 1..Len(ActiveStages) :
        (HasGate(state, ActiveStages[i]) /\ state.Gates[ActiveStages[i]].Status = "approved")
        => \A j \in 1..(i - 1) :
               /\ HasGate(state, ActiveStages[j])
               /\ state.Gates[ActiveStages[j]].Status = "approved"

\* C37: for every state built by a constructor from an accepted workflow and
\* every stage S of that workflow, the lookup ApproveGate uses to decide
\* whether to advance, GetNextStageForMode(S, QuickMode), is non-empty
\* exactly when the lookup AdvanceStage uses, GetNextStageInWorkflow(S), is
\* non-empty; and when a workflow override is set, AdvanceStage takes no
\* stage from the fixed ordering.
C37_OneNextStage ==
    /\ \A i \in 1..Len(ActiveStages) :
           GetNextStageForMode(ActiveStages[i], state.QuickMode) # ""
           <=> GetNextStageInWorkflow(state, ActiveStages[i]) # ""
    /\ Len(state.Workflow) > 0 =>
           AdvanceToNextStage(state) = AdvanceToNextStage_NoFallback(state)

\* C38: AddPhase, SetPhaseStatus, ApproveGate, RejectGate, SetGateStatus and
\* AdvanceStage never remove a tracked phase, and the gate operations
\* (ApproveGate, RejectGate, SetGateStatus, AdvanceStage) never change any
\* phase's status.
C38_OnlyReconciliationRemovesPhases ==
    [][/\ last'.op \in {"AddPhase", "SetPhaseStatus", "ApproveGate", "RejectGate",
                        "SetGateStatus", "AdvanceStage"}
          => Range(PhaseNames(state)) \subseteq Range(PhaseNames(state'))
       /\ last'.op \in {"ApproveGate", "RejectGate", "SetGateStatus", "AdvanceStage"}
          => state'.Phases = state.Phases]_vars

\* approving a gate moved the project to its next stage while a phase that
\* is done was tracked
C38_Witness ==
    /\ last.op = "ApproveGate"
    /\ last.err = OK
    /\ state.CurrentStage = "design"
    /\ Len(state.Phases) = 1
    /\ state.Phases[1].Status = "done"

\* C39: ValidateImplementation passes if and only if AllPhasesDone() is
\* true, that is, the phase list is not empty and every phase is done.
C39_ValidatorAgreesWithTracker ==
    last.op = "ValidateImplementation" =>
        /\ last.passed <=> AllPhasesDone(state)
        /\ last.passed <=> (/\ state.Phases # <<>>
                            /\ \A i \in 1..Len(state.Phases) :
                                   state.Phases[i].Status = "done")

\* the validator passed a list of two phases
C39_Witness ==
    /\ last.op = "ValidateImplementation"
    /\ last.passed
    /\ Len(state.Phases) = 2

\* C40: under any sequence of gate commands and phase commands, at the
\* moment the implementation gate becomes approved the tracked phase list is
\* not empty and every tracked phase is done, whether the reviewer is auto
\* or human.
C40_ImplementationApprovedOnlyWhenDone ==
    [][(/\ state.Gates["implementation"].Status # "approved"
        /\ state'.Gates["implementation"].Status = "approved")
       => /\ state'.Phases # <<>>
          /\ \A i \in 1..Len(state'.Phases) : state'.Phases[i].Status = "done"]_vars

====
